---------------------------- MODULE Spec2Model ----------------------------
(***************************************************************************)
(* State-machine model of heart.py (wangyf/beat):                          *)
(*   - vary_model / ensemble_earthmodel  (earth-model ensemble generation) *)
(*   - get_phase_arrival_time / get_phase_taperer / seis_synthetics        *)
(*                                                                         *)
(* Numbers.  Depths are metres and velocities m/s, as in the source, kept  *)
(* as integers.  Fractional uncertainties (err_depth, err_velocities, the  *)
(* mantle velocity uncertainties) are kept in units of 0.001, so that     *)
(* 0.1 is 100 and 0.02 is 20.  A draw of num.random.normal(0, sigma) is a  *)
(* nondeterministic choice: exactly 0 when sigma is 0, and one of a small  *)
(* set of non-zero deltas otherwise.                                       *)
(*                                                                         *)
(* Objects.  A cake LayeredModel is a record of a material table `mats'    *)
(* and a sequence `layers'; a layer names its top and bottom material by   *)
(* index into the table, so that two names of one Material object (the     *)
(* single material of a homogeneous layer, or the material two gradient    *)
(* layers share at a depth without interface) are written through          *)
(* together, as in Python.  Model objects live in `heap'; heap[1] is the   *)
(* reference model handed to ensemble_earthmodel.                          *)
(***************************************************************************)
EXTENDS Integers, Sequences, FiniteSets, TLC

\* ------------------------------------------------------------------------
\* Module-level constants of heart.py and the tables of vary_model
\* ------------------------------------------------------------------------
km == 1000

\* the retry cap of the velocity redraw loop: `if count > 1000: break'
MaxVelCount == 1000

\* the acceptance threshold of ensemble_earthmodel: `if cost > 20'
CostThreshold == 20

\* the cost assigned at the depth_limit layer
TruncationCost == 1000

\* discont_unc = {'410': 3 * km, '520': 4 * km, '660': 8 * km}
discont_unc == [k \in {410, 520, 660} |->
                   IF k = 410 THEN 3 * km ELSE IF k = 520 THEN 4 * km ELSE 8 * km]

\* mantle_vel_unc = {'200': 0.02, '400': 0.01}
mantle_vel_unc == [k \in {200, 400} |-> IF k = 200 THEN 20 ELSE 10]

\* '%i' % (layer.zbot / km): the quotient truncated towards zero
FormatKm(z) == IF z >= 0 THEN z \div km ELSE -((-z) \div km)

\* ------------------------------------------------------------------------
\* Bounds of the model
\* ------------------------------------------------------------------------
\* rejected draws allowed in one redraw sequence whose draws are random
MaxRetry == 4

\* the non-zero velocity deltas drawn are -DeltaVp and +DeltaVp
DeltaVp == 500

\* the non-zero depth deltas drawn are -DeltaZ and +DeltaZ
DeltaZ == 18000

\* ------------------------------------------------------------------------
\* Reference models
\* ------------------------------------------------------------------------
Mat(vp, vs) == [vp |-> vp, vs |-> vs]

Lay(ztop, zbot, mtop, mbot, g) ==
    [ztop |-> ztop, zbot |-> zbot, mtop |-> mtop, mbot |-> mbot, gradient |-> g]

\* continuous gradient profile without interfaces: neighbours share a material
RefGradient ==
    [mats   |-> << Mat(5800, 3200), Mat(6200, 3500), Mat(7200, 4000), Mat(8000, 4500) >>,
     layers |-> << Lay(0, 20 * km, 1, 2, TRUE),
                   Lay(20 * km, 35 * km, 2, 3, TRUE),
                   Lay(35 * km, 77 * km, 3, 4, TRUE) >>]

\* homogeneous layers separated by interfaces: one material per layer
RefHomogeneous ==
    [mats   |-> << Mat(5800, 3200), Mat(6500, 3700), Mat(6800, 3900) >>,
     layers |-> << Lay(0, 20 * km, 1, 1, FALSE),
                   Lay(20 * km, 35 * km, 2, 2, FALSE),
                   Lay(35 * km, 77 * km, 3, 3, FALSE) >>]

\* gradient layers separated by interfaces: no material is shared
RefInterfaces ==
    [mats   |-> << Mat(5800, 3200), Mat(6200, 3500), Mat(6600, 3700),
                   Mat(7200, 4000), Mat(7400, 4100), Mat(8000, 4500) >>,
     layers |-> << Lay(0, 15 * km, 1, 2, TRUE),
                   Lay(15 * km, 35 * km, 3, 4, TRUE),
                   Lay(35 * km, 77 * km, 5, 6, TRUE) >>]

\* a low-velocity zone: the second layer is slower than the first
RefLowVelocity ==
    [mats   |-> << Mat(6500, 3700), Mat(6000, 3400), Mat(8000, 4500) >>,
     layers |-> << Lay(0, 20 * km, 1, 1, FALSE),
                   Lay(20 * km, 35 * km, 2, 2, FALSE),
                   Lay(35 * km, 77 * km, 3, 3, FALSE) >>]

\* upper mantle: tops below 200 km and 400 km, a bottom on the 410 km discontinuity
RefMantle ==
    [mats   |-> << Mat(8000, 4500), Mat(8300, 4600), Mat(8600, 4800), Mat(9000, 5000) >>,
     layers |-> << Lay(0, 210 * km, 1, 1, FALSE),
                   Lay(210 * km, 410 * km, 2, 2, FALSE),
                   Lay(410 * km, 420 * km, 3, 3, FALSE),
                   Lay(420 * km, 700 * km, 4, 4, FALSE) >>]

Cfg(ref, ed, ev, dl, nv, ord) ==
    [ref |-> ref, err_depth |-> ed, err_velocities |-> ev, depth_limit |-> dl,
     num_vary |-> nv, order |-> ord]

\* the calls of ensemble_earthmodel that are explored
Configs ==
    { Cfg(RefGradient, 0, 0, 35 * km, 2, << 200, 400 >>),
      Cfg(RefGradient, 50, 0, 35 * km, 2, << 200, 400 >>),
      Cfg(RefGradient, 100, 100, 35 * km, 1, << 200, 400 >>),
      Cfg(RefGradient, 100, 100, 600 * km, 1, << 200, 400 >>),
      Cfg(RefHomogeneous, 0, 100, 0, 1, << 200, 400 >>),
      Cfg(RefHomogeneous, 100, 100, 35 * km, 2, << 200, 400 >>),
      Cfg(RefInterfaces, 100, 100, 35 * km, 1, << 200, 400 >>),
      Cfg(RefInterfaces, 0, 0, 600 * km, 0, << 200, 400 >>),
      Cfg(RefLowVelocity, 0, 0, 35 * km, 1, << 200, 400 >>),
      Cfg(RefLowVelocity, 0, 0, 20 * km, 1, << 200, 400 >>),
      Cfg(RefLowVelocity, 100, 100, 35 * km, 1, << 200, 400 >>),
      Cfg(RefMantle, 0, 0, 420 * km, 1, << 200, 400 >>),
      Cfg(RefMantle, 0, 0, 420 * km, 1, << 400, 200 >>),
      Cfg(RefMantle, 100, 0, 600 * km, 1, << 200, 400 >>),
      Cfg(RefMantle, 0, 0, 200 * km, 1, << 200, 400 >>) }

\* ------------------------------------------------------------------------
\* State
\* ------------------------------------------------------------------------
VARIABLES
    heap,            \* the LayeredModel objects; heap[1] is ref_earthmod
    num_vary,        \* ensemble_earthmodel arguments
    err_depth,
    err_velocities,
    depth_limit,
    items_order,     \* the order in which mantle_vel_unc.items() iterates
    earthmods,       \* ensemble_earthmodel: the list of accepted models (heap indices)
    i,               \* ensemble_earthmodel: the loop counter
    skipped,         \* whether 'Skipped unlikely model' has been printed
    ens_pc,          \* ensemble_earthmodel: "loop", "vary" or "done"
    pc,              \* vary_model: "idle", "for", "vel", "shift", "depth" or "ret"
    new_earthmod,    \* vary_model: heap index of the copy (0 outside a call)
    li,              \* vary_model: index of the layer of the for loop
    last_l,          \* vary_model: << >> for None, or << the copied layer >>
    cost,
    deltaz,
    count,
    vm_err_velocities,   \* vary_model's own err_velocities, rebound by the band table
    factor_d,
    n_rejected,      \* observer: the draws rejected so far in this vary_model call
    exhausted,       \* observer: a velocity loop of this call ended by `count > 1000'
    sources,         \* seis_synthetics arguments
    targets,
    arrival_taper,   \* << >> for None, or << the ArrivalTaper >>
    filterer,        \* << >> for None, or << the Filter >>
    reference_taperer,   \* << >> for None, or << the CosTaper >>
    outmode,
    response,        \* the results of engine.process not yet iterated
    synt_trcs,       \* the traces appended so far
    store_log,       \* the calls made on the engine and its stores
    taperer,         \* the taperer of the last pass of the loop (<< >> for none)
    outstack,        \* the returned stack (rows of samples, or traces)
    tmins,
    seis_pc,         \* seis_synthetics: "idle", "start", "iter", "stack", "done", "raised"
    data_traces,     \* taper_filter_traces: the recorded traces
    cut_traces,      \* taper_filter_traces: the traces appended so far
    tft_taperer,     \* taper_filter_traces: the taperer of the last pass (<< >> for none)
    tft_out,         \* taper_filter_traces: the returned rows
    tft_pc,          \* taper_filter_traces: "idle", "loop", "done" or "vstack_error"
    cov_data,        \* Covariance: data, pred_g, pred_v (<< >> for None, or << the matrix >>)
    cov_pred_g,
    cov_pred_v,
    cov_total,       \* the value the last read of Covariance.total returned (<< >> before)
    cov_reads        \* the reads of Covariance.total made so far

ens_args == << num_vary, err_depth, err_velocities, depth_limit, items_order >>
ens_vars == << earthmods, i, skipped, ens_pc >>
vm_vars == << pc, new_earthmod, li, last_l, cost, deltaz, count, vm_err_velocities, factor_d,
             n_rejected, exhausted >>
earth_vars == << heap, ens_args, ens_vars, vm_vars >>
seis_args == << sources, targets, arrival_taper, filterer, reference_taperer, outmode >>
tft_vars == << data_traces, cut_traces, tft_taperer, tft_out, tft_pc >>
seis_vars == << seis_args, response, synt_trcs, store_log, taperer, outstack, tmins, seis_pc,
                tft_vars >>
cov_vars == << cov_data, cov_pred_g, cov_pred_v, cov_total, cov_reads >>
vars == << earth_vars, seis_vars, cov_vars >>

\* ------------------------------------------------------------------------
\* Object access
\* ------------------------------------------------------------------------
\* a copy that is the object itself
Deepcopy_alias(h, idx) == << h, idx >>

\* copy.deepcopy(earthmod): a new model object with the same contents, placed
\* at a fresh heap index; the result is << heap', index >>
Deepcopy(h, idx) == << Append(h, h[idx]), Len(h) + 1 >>

Layers(mod) == mod.layers

MTop(mod, k) == mod.mats[mod.layers[k].mtop]

MBot(mod, k) == mod.mats[mod.layers[k].mbot]

\* layer.mtop.vp += d (seen through every name of that material)
AddVp(mod, m, d) == [mod EXCEPT !.mats[m].vp = @ + d]

\* material.vs += d / material.vp_vs_ratio(), with vp_vs_ratio() = vp / vs
AddVs(mod, m, d) == [mod EXCEPT !.mats[m].vs = @ + ((d * @) \div mod.mats[m].vp)]

\* copy.deepcopy(layer): the layer with its own copies of its materials
CopyLayer(mod, k) ==
    [ztop |-> mod.layers[k].ztop, zbot |-> mod.layers[k].zbot,
     mtop |-> MTop(mod, k), mbot |-> MBot(mod, k)]

\* ------------------------------------------------------------------------
\* Random draws
\* ------------------------------------------------------------------------
\* num.random.normal(0, sigma, 1) for a velocity
VelocityDraws(sigma) == IF sigma = 0 THEN {0} ELSE {-DeltaVp, DeltaVp}

\* num.random.normal(0, sigma, 1) for a depth
DepthDraws(sigma) == IF sigma = 0 THEN {0} ELSE {-DeltaZ, DeltaZ}

\* ------------------------------------------------------------------------
\* vary_model
\* ------------------------------------------------------------------------
\* the band table read in metres instead of kilometres
RECURSIVE BandOverride_metres(_, _, _)
BandOverride_metres(order, ztop, err) ==
    IF order = << >> THEN err
    ELSE BandOverride_metres(Tail(order), ztop,
                      IF Head(order) < ztop THEN mantle_vel_unc[Head(order)] ELSE err)

\* for l_depth, vel_unc in mantle_vel_unc.items():
\*     if float(l_depth) * km < layer.ztop: err_velocities = vel_unc
RECURSIVE BandOverride(_, _, _)
BandOverride(order, ztop, err) ==
    IF order = << >> THEN err
    ELSE BandOverride(Tail(order), ztop,
                      IF Head(order) * km < ztop THEN mantle_vel_unc[Head(order)] ELSE err)

\* the standard deviation layer.mtop.vp * err_velocities / 3.
VelocitySigma(vp, err) == (vp * err) \div 3

\* factor_d: the hardcoded discontinuity uncertainty over zbot (in units of
\* 0.001), or err_depth
FactorD(zbot, err) ==
    IF FormatKm(zbot) \in DOMAIN discont_unc
    THEN (discont_unc[FormatKm(zbot)] * 1000) \div zbot
    ELSE err

\* the standard deviation layer.zbot * factor_d / 3.
DepthSigma(zbot, factor) == (zbot * factor) \div 3

\* the depth_limit test at the head of the for loop
AtDepthLimit(limit, ztop) == limit /= 0 /\ ztop >= limit

\* a depth_limit layer that assigns no cost
TruncationChecks_none(layer, mtop, mbot, last, c) == c

\* the cost after the two checks made at the depth_limit layer
TruncationChecks(layer, mtop, mbot, last, c) ==
    LET c1 == IF mtop.vp < last.mtop.vp \/ mtop.vp > mbot.vp THEN TruncationCost ELSE c
    IN  IF layer.zbot < layer.ztop THEN TruncationCost ELSE c1

\* the depth redraw test made on the bottom before the delta is added
DepthRejected_early(zbot, ztop, d) == zbot < ztop

\* the depth redraw test `layer.zbot < layer.ztop' after layer.zbot += deltaz
DepthRejected(zbot, ztop, d) == zbot + d < ztop

\* the top left where it was
ShiftTop_none(mod, k, d) == mod

\* layer.ztop += deltaz
ShiftTop(mod, k, d) == [mod EXCEPT !.layers[k].ztop = @ + d]

\* for layer in layers: the layers are exhausted
LayersDone ==
    /\ UNCHANGED << seis_vars, cov_vars >>
    /\ pc = "for"
    /\ li = Len(Layers(heap[new_earthmod]))
    /\ pc' = "ret"
    /\ UNCHANGED << heap, ens_args, ens_vars, new_earthmod, li, last_l, cost, deltaz,
                    count, vm_err_velocities, factor_d, n_rejected, exhausted >>

\* the depth_limit branch: snap the top, assign the large cost, break
LayerTruncate ==
    /\ UNCHANGED << seis_vars, cov_vars >>
    /\ pc = "for"
    /\ li < Len(Layers(heap[new_earthmod]))
    /\ AtDepthLimit(depth_limit, Layers(heap[new_earthmod])[li + 1].ztop)
    /\ last_l /= << >>
    /\ LET k == li + 1
           mod == [heap[new_earthmod] EXCEPT !.layers[k].ztop = last_l[1].zbot]
       IN  /\ heap' = [heap EXCEPT ![new_earthmod] = mod]
           /\ cost' = TruncationChecks(mod.layers[k], MTop(mod, k), MBot(mod, k),
                                       last_l[1], cost)
    /\ pc' = "ret"
    /\ UNCHANGED << ens_args, ens_vars, new_earthmod, li, last_l, deltaz, count,
                    vm_err_velocities, factor_d, n_rejected, exhausted >>

\* the next layer is above the limit: repeat = 1, count = 0
LayerEnter ==
    /\ UNCHANGED << seis_vars, cov_vars >>
    /\ pc = "for"
    /\ li < Len(Layers(heap[new_earthmod]))
    /\ ~AtDepthLimit(depth_limit, Layers(heap[new_earthmod])[li + 1].ztop)
    /\ li' = li + 1
    /\ count' = 0
    /\ pc' = "vel"
    /\ UNCHANGED << heap, ens_args, ens_vars, new_earthmod, last_l, cost, deltaz,
                    vm_err_velocities, factor_d, n_rejected, exhausted >>

\* a break that also clears the retry counter
VelocityBreak_reset ==
    /\ UNCHANGED << seis_vars, cov_vars >>
    /\ pc = "vel"
    /\ count > MaxVelCount
    /\ pc' = "shift"
    /\ exhausted' = TRUE
    /\ count' = 0
    /\ UNCHANGED << heap, ens_args, ens_vars, new_earthmod, li, last_l, cost, deltaz,
                    vm_err_velocities, factor_d, n_rejected >>

\* while repeat: if count > 1000: break
VelocityBreak ==
    /\ UNCHANGED << seis_vars, cov_vars >>
    /\ pc = "vel"
    /\ count > MaxVelCount
    /\ pc' = "shift"
    /\ exhausted' = TRUE
    /\ UNCHANGED << heap, ens_args, ens_vars, new_earthmod, li, last_l, cost, deltaz,
                    count, vm_err_velocities, factor_d, n_rejected >>

\* one pass of the velocity redraw loop with the draw d
VelocityDraw ==
    /\ UNCHANGED << seis_vars, cov_vars >>
    /\ pc = "vel"
    /\ count <= MaxVelCount
    /\ LET mod0 == heap[new_earthmod]
           layer == mod0.layers[li]
           err == BandOverride(items_order, layer.ztop, vm_err_velocities)
           sigma == VelocitySigma(MTop(mod0, li).vp, err)
       IN  \E d \in VelocityDraws(sigma) :
             LET mod1 == IF layer.ztop = 0 THEN AddVp(mod0, layer.mtop, d) ELSE mod0
                 top == MTop(mod1, li).vp
                 bot == MBot(mod1, li).vp
                 noInterface == last_l /= << >> /\ top = last_l[1].mbot.vp
                 rejected == /\ last_l /= << >>
                             /\ IF noInterface THEN bot + d < top
                                               ELSE top + d < last_l[1].mbot.vp
                 modA == AddVs(AddVp(mod1, layer.mbot, d), layer.mbot, d)
                 modB == AddVs(AddVp(mod1, layer.mtop, d), layer.mtop, d)
                 modC == IF layer.gradient
                         THEN AddVs(AddVp(modB, layer.mbot, d), layer.mbot, d)
                         ELSE modB
             IN  /\ vm_err_velocities' = err
                 /\ IF last_l = << >>
                    THEN /\ heap' = [heap EXCEPT ![new_earthmod] = mod1]
                         /\ pc' = "shift"
                         /\ UNCHANGED << count, cost, n_rejected >>
                    ELSE IF rejected
                    THEN /\ count < MaxRetry \/ sigma = 0
                         /\ heap' = [heap EXCEPT ![new_earthmod] = mod1]
                         /\ count' = count + 1
                         /\ n_rejected' = n_rejected + 1
                         /\ UNCHANGED << pc, cost >>
                    ELSE /\ heap' = [heap EXCEPT ![new_earthmod] =
                                        IF noInterface THEN modA ELSE modC]
                         /\ cost' = cost + count
                         /\ pc' = "shift"
                         /\ UNCHANGED << count, n_rejected >>
    /\ UNCHANGED << ens_args, ens_vars, new_earthmod, li, last_l, deltaz, factor_d,
                    exhausted >>

\* layer.ztop += deltaz; repeat = 1; the choice of factor_d
DepthEnter ==
    /\ UNCHANGED << seis_vars, cov_vars >>
    /\ pc = "shift"
    /\ heap' = [heap EXCEPT ![new_earthmod] = ShiftTop(@, li, deltaz)]
    /\ factor_d' = FactorD(heap[new_earthmod].layers[li].zbot, err_depth)
    /\ pc' = "depth"
    /\ UNCHANGED << ens_args, ens_vars, new_earthmod, li, last_l, cost, deltaz, count,
                    vm_err_velocities, n_rejected, exhausted >>

\* one pass of the depth redraw loop with the draw d; on success
\* last_l = copy.deepcopy(layer) and the for loop goes on
DepthDraw ==
    /\ UNCHANGED << seis_vars, cov_vars >>
    /\ pc = "depth"
    /\ LET mod == heap[new_earthmod]
           layer == mod.layers[li]
       IN  \E d \in DepthDraws(DepthSigma(layer.zbot, factor_d)) :
             /\ deltaz' = d
             /\ IF DepthRejected(layer.zbot, layer.ztop, d)
                THEN /\ count < MaxRetry
                     /\ count' = count + 1
                     /\ n_rejected' = n_rejected + 1
                     /\ UNCHANGED << heap, pc, cost, last_l >>
                ELSE /\ heap' = [heap EXCEPT ![new_earthmod].layers[li].zbot = @ + d]
                     /\ cost' = cost + count
                     /\ last_l' = << CopyLayer(heap'[new_earthmod], li) >>
                     /\ pc' = "for"
                     /\ UNCHANGED << count, n_rejected >>
    /\ UNCHANGED << ens_args, ens_vars, new_earthmod, li, vm_err_velocities, factor_d,
                    exhausted >>

\* ------------------------------------------------------------------------
\* ensemble_earthmodel
\* ------------------------------------------------------------------------
\* the locals of a vary_model call that has returned
Idle ==
    /\ pc' = "idle"
    /\ new_earthmod' = 0
    /\ li' = 0
    /\ last_l' = << >>
    /\ cost' = 0
    /\ deltaz' = 0
    /\ count' = 0
    /\ vm_err_velocities' = 0
    /\ factor_d' = 0
    /\ n_rejected' = 0
    /\ exhausted' = FALSE

\* an acceptance test that lets every cost through
Accepted_all(c) == TRUE

\* the acceptance test `cost > 20' negated
Accepted(c) == ~(c > CostThreshold)

\* while i < num_vary: new_model, cost = vary_model(ref_earthmod, ...)
EnsembleCall ==
    /\ UNCHANGED << seis_vars, cov_vars >>
    /\ ens_pc = "loop"
    /\ i < num_vary
    /\ ens_pc' = "vary"
    /\ heap' = Deepcopy(heap, 1)[1]
    /\ new_earthmod' = Deepcopy(heap, 1)[2]
    /\ li' = 0
    /\ last_l' = << >>
    /\ cost' = 0
    /\ deltaz' = 0
    /\ count' = 0
    /\ vm_err_velocities' = err_velocities
    /\ factor_d' = 0
    /\ n_rejected' = 0
    /\ exhausted' = FALSE
    /\ pc' = "for"
    /\ UNCHANGED << ens_args, earthmods, i, skipped >>

\* if cost > 20: print 'Skipped unlikely model', cost
EnsembleSkip ==
    /\ UNCHANGED << seis_vars, cov_vars >>
    /\ ens_pc = "vary"
    /\ pc = "ret"
    /\ ~Accepted(cost)
    /\ skipped' = TRUE
    /\ heap' = IF new_earthmod = Len(heap) /\ new_earthmod /= 1
               THEN SubSeq(heap, 1, Len(heap) - 1) ELSE heap
    /\ ens_pc' = "loop"
    /\ Idle
    /\ UNCHANGED << ens_args, earthmods, i >>

\* else: i += 1; earthmods.append(new_model)
EnsembleAppend ==
    /\ UNCHANGED << seis_vars, cov_vars >>
    /\ ens_pc = "vary"
    /\ pc = "ret"
    /\ Accepted(cost)
    /\ i' = i + 1
    /\ earthmods' = Append(earthmods, new_earthmod)
    /\ ens_pc' = "loop"
    /\ Idle
    /\ UNCHANGED << heap, ens_args, skipped >>

\* return earthmods
EnsembleReturn ==
    /\ UNCHANGED << seis_vars, cov_vars >>
    /\ ens_pc = "loop"
    /\ ~(i < num_vary)
    /\ ens_pc' = "done"
    /\ UNCHANGED << heap, ens_args, earthmods, i, skipped, vm_vars >>

\* no Covariance object has been built
CovIdle ==
    /\ cov_data = << >>
    /\ cov_pred_g = << >>
    /\ cov_pred_v = << >>
    /\ cov_total = << >>
    /\ cov_reads = 0

\* the state before taper_filter_traces is called
TftIdle ==
    /\ data_traces = << >>
    /\ cut_traces = << >>
    /\ tft_taperer = << >>
    /\ tft_out = << >>
    /\ tft_pc = "idle"

\* the state before seis_synthetics is called
SeisIdle ==
    /\ sources = << >>
    /\ targets = << >>
    /\ arrival_taper = << >>
    /\ filterer = << >>
    /\ reference_taperer = << >>
    /\ outmode = "array"
    /\ response = << >>
    /\ synt_trcs = << >>
    /\ store_log = << >>
    /\ taperer = << >>
    /\ outstack = << >>
    /\ tmins = << >>
    /\ seis_pc = "idle"
    /\ TftIdle

Init ==
    /\ SeisIdle
    /\ CovIdle
    /\ \E c \in Configs :
        /\ heap = << c.ref >>
        /\ num_vary = c.num_vary
        /\ err_depth = c.err_depth
        /\ err_velocities = c.err_velocities
        /\ depth_limit = c.depth_limit
        /\ items_order = c.order
        /\ earthmods = << >>
        /\ i = 0
        /\ skipped = FALSE
        /\ ens_pc = "loop"
        /\ pc = "idle"
        /\ new_earthmod = 0
        /\ li = 0
        /\ last_l = << >>
        /\ cost = 0
        /\ deltaz = 0
        /\ count = 0
        /\ vm_err_velocities = 0
        /\ factor_d = 0
        /\ n_rejected = 0
        /\ exhausted = FALSE

Next ==
    \/ EnsembleCall
    \/ LayersDone
    \/ LayerTruncate
    \/ LayerEnter
    \/ VelocityBreak
    \/ VelocityDraw
    \/ DepthEnter
    \/ DepthDraw
    \/ EnsembleSkip
    \/ EnsembleAppend
    \/ EnsembleReturn

Spec == Init /\ [][Next]_vars

\* ------------------------------------------------------------------------
\* Seismogram synthesis: inputs
\* ------------------------------------------------------------------------
\* most sources in one call
MaxSources == 2

\* most targets in one call
MaxTargets == 2

\* samples of a raw synthetic trace (the sampling interval is 1 s)
NSamples == 10

Src(time, depth, shift) == [time |-> time, depth |-> depth, north_shift |-> shift]

\* codes = (network, station, location, channel)
Tgt(station, channel, shift) ==
    [codes |-> << "NW", station, "0", channel >>, store_id |-> station,
     north_shift |-> shift]

SourceSet == { Src(0, 1, 0), Src(2, 2, 1) }

TargetSet == { Tgt("STA", "T", 3), Tgt("STB", "Z", 4), Tgt("STC", "R", 3) }

\* ArrivalTaper(a, b, c, d)
ArrivalTaper(a, b, c, d) == [a |-> a, b |-> b, c |-> c, d |-> d]

\* the tapers tried: fade-in start before fade-in end as in the class defaults
\* (15, 10, 50, 55), offsets in increasing order, and equal offsets
TaperSet == { ArrivalTaper(2, 1, 1, 2), ArrivalTaper(1, 2, 2, 3), ArrivalTaper(1, 1, 2, 2) }

\* Filter(lower_corner, upper_corner, order), the corners in mHz
Filter(lo, up, order) == [lower_corner |-> lo, upper_corner |-> up, order |-> order]

FilterSet == { Filter(1, 100, 1) }

\* trace.CosTaper(a, b, c, d): absolute times
CosTaper(a, b, c, d) == [a |-> a, b |-> b, c |-> c, d |-> d]

ReferenceTaperSet == { CosTaper(3, 4, 6, 7) }

\* the sequences over S of length 1..n
SeqsUpTo(S, n) == UNION { [1..m -> S] : m \in 1..n }

\* ------------------------------------------------------------------------
\* The engine, its stores and the trace operations of pyrocko
\* ------------------------------------------------------------------------
Abs(x) == IF x < 0 THEN -x ELSE x

\* target.distance_to(source)
DistanceTo(target, source) == Abs(target.north_shift - source.north_shift)

\* store.t(wave, (depth, dist)): the tabulated travel time of a phase
StoreT(wave, depth, dist) ==
    IF wave = "any_P" THEN depth + dist ELSE depth + 2 * dist

\* the trace the engine computes for a source and a target
Synthetic(source, target) ==
    [tmin  |-> source.time,
     ydata |-> [j \in 1..NSamples |->
                   2 * (source.depth * j + DistanceTo(target, source))]]

\* response.iter_results(): for each source, for each target
IterResults(srcs, tgts) ==
    [n \in 1..(Len(srcs) * Len(tgts)) |->
        LET k == ((n - 1) \div Len(tgts)) + 1
            t == ((n - 1) % Len(tgts)) + 1
        IN  [source |-> srcs[k], target |-> tgts[t], tr |-> Synthetic(srcs[k], tgts[t])]]

Clip(x, n) == IF x < 0 THEN 0 ELSE IF x > n THEN n ELSE x

\* the cosine envelope in halves: 0 outside (a, d), 2 on [b, c], 1 on the ramps
TaperWeight(tp, t) ==
    IF t <= tp.a \/ t >= tp.d THEN 0
    ELSE IF t >= tp.b /\ t <= tp.c THEN 2 ELSE 1

\* tr.taper(taperer, inplace=True, chop=True): cut to the span [a, d) of the
\* taper, move tmin to the first sample kept, and apply the envelope
TaperChop(tr, tp) ==
    LET n == Len(tr.ydata)
        ia == Clip(tp.a - tr.tmin, n)
        id == Clip(tp.d - tr.tmin, n)
        m == IF id > ia THEN id - ia ELSE 0
        t0 == tr.tmin + ia
    IN  [tmin  |-> t0,
         ydata |-> [j \in 1..m |->
                       (tr.ydata[ia + j] * TaperWeight(tp, t0 + j - 1)) \div 2]]

\* one stage of the filter: the first difference of the samples
Difference(y) == [j \in 1..Len(y) |-> IF j = 1 THEN y[j] ELSE y[j] - y[j - 1]]

RECURSIVE Stages(_, _)
Stages(y, n) == IF n = 0 THEN y ELSE Stages(Difference(y), n - 1)

\* tr.bandpass(corner_hp, corner_lp, order): a linear causal filter applied in
\* place, with `order' stages
Bandpass(tr, f) == [tr EXCEPT !.ydata = Stages(@, f.order)]

\* ------------------------------------------------------------------------
\* get_phase_arrival_time, get_phase_taperer
\* ------------------------------------------------------------------------
Call(name, store, wave, depth, dist) ==
    [call |-> name, store_id |-> store, wave |-> wave, depth |-> depth, dist |-> dist]

\* a phase name for every channel: the names swapped
PhaseOf_swapped(channel) ==
    IF channel = "T" THEN "any_P" ELSE IF channel = "Z" THEN "any_S" ELSE "unsupported"

\* if target.codes[3] == 'T': wave = 'any_S'; elif ... == 'Z': wave = 'any_P';
\* else: raise
PhaseOf(channel) ==
    IF channel = "T" THEN "any_S" ELSE IF channel = "Z" THEN "any_P" ELSE "unsupported"

\* get_phase_arrival_time(engine, source, target): the calls made, whether it
\* raised, and the value returned
GetPhaseArrivalTime(source, target) ==
    LET dist == DistanceTo(target, source)
        depth == source.depth
        wave == PhaseOf(target.codes[4])
        opened == << Call("get_store", target.store_id, "", 0, 0) >>
    IN  IF wave = "unsupported"
        THEN [raised |-> TRUE, calls |-> opened, value |-> 0]
        ELSE [raised |-> FALSE,
              calls  |-> Append(opened, Call("t", target.store_id, wave, depth, dist)),
              value  |-> StoreT(wave, depth, dist) + source.time]

\* a taperer whose fade-in times are exchanged
WindowTimes_swapped(arrival_time, at) ==
    CosTaper(arrival_time - at.b, arrival_time - at.a,
             arrival_time + at.c, arrival_time + at.d)

\* trace.CosTaper(arrival_time - a, arrival_time - b, arrival_time + c, arrival_time + d)
WindowTimes(arrival_time, at) ==
    CosTaper(arrival_time - at.a, arrival_time - at.b,
             arrival_time + at.c, arrival_time + at.d)

\* get_phase_taperer(engine, source, target, arrival_taper)
GetPhaseTaperer(source, target, at) ==
    LET r == GetPhaseArrivalTime(source, target)
    IN  [raised |-> r.raised, calls |-> r.calls,
         value  |-> IF r.raised THEN CosTaper(0, 0, 0, 0) ELSE WindowTimes(r.value, at)]

\* ------------------------------------------------------------------------
\* seis_synthetics
\* ------------------------------------------------------------------------
\* the body of the loop over the results for one result: the taperer chosen,
\* the calls made, whether it raised, and the trace appended
ProcessResult(res, srcs, at, f, ref) ==
    LET g == IF at /= << >> /\ ref = << >>
             THEN GetPhaseTaperer(srcs[1], res.target, at[1])
             ELSE [raised |-> FALSE, calls |-> << >>,
                   value  |-> IF ref /= << >> THEN ref[1] ELSE CosTaper(0, 0, 0, 0)]
        tr1 == IF at /= << >> THEN TaperChop(res.tr, g.value) ELSE res.tr
        tr2 == IF f /= << >> THEN Bandpass(tr1, f[1]) ELSE tr1
    IN  [raised |-> g.raised, calls |-> g.calls,
         taperer |-> IF at /= << >> THEN << g.value >> ELSE << >>,
         tr |-> tr2]

\* num.vstack raises when the rows differ in length
Ragged(trcs) == \E m, n \in 1..Len(trcs) : Len(trcs[m].ydata) /= Len(trcs[n].ydata)

\* synths = num.vstack([synt_trcs[i].ydata for i in range(len(synt_trcs))])
VStack(trcs) == [n \in 1..Len(trcs) |-> trcs[n].ydata]

\* synths[(k * nt):(k + 1) * nt, :], k counted from 0
RowsOf(synths, k, nt) == [r \in 1..nt |-> synths[k * nt + r]]

\* num.zeros([nt, synths.shape[1]])
Zeros(nt, width) == [r \in 1..nt |-> [j \in 1..width |-> 0]]

\* outstack += rows
AddRows(out, rows) ==
    [r \in 1..Len(out) |-> [j \in 1..Len(out[r]) |-> out[r][j] + rows[r][j]]]

\* for k in range(ns): outstack = num.zeros(...); outstack += synths[...]
RECURSIVE StackLoop(_, _, _, _, _)
StackLoop(synths, k, ns, nt, out) ==
    IF k = ns THEN out
    ELSE StackLoop(synths, k + 1, ns, nt,
             AddRows(Zeros(nt, Len(synths[1])), RowsOf(synths, k, nt)))

\* if ns > 1: the loop; else: outstack = synths
StackSources(synths, ns, nt) ==
    IF ns > 1 THEN StackLoop(synths, 0, ns, nt, << >>) ELSE synths

\* if outmode == 'traces': the first nt traces carry the rows of the stack
OutTraces(trcs, out, nt) == [r \in 1..nt |-> [trcs[r] EXCEPT !.ydata = out[r]]]

\* tmins = num.vstack([synt_trcs[i].tmin for i in range(nt)]).flatten()
TMins(trcs, nt) == [r \in 1..nt |-> trcs[r].tmin]

\* the statements after the loop: the returned pair
StackStage(trcs, ns, nt, mode) ==
    LET out == StackSources(VStack(trcs), ns, nt)
    IN  [outstack |-> IF mode = "traces" THEN OutTraces(trcs, out, nt) ELSE out,
         tmins    |-> TMins(trcs, nt)]

\* the samples of row r of a returned stack, in either output mode
RowData(out, r, mode) == IF mode = "traces" THEN out[r].ydata ELSE out[r]

\* the loop over the results as a whole: the traces appended, and whether a
\* pass raised
RECURSIVE ProcessAll(_, _, _, _, _)
ProcessAll(results, srcs, at, f, ref) ==
    IF results = << >> THEN [raised |-> FALSE, trcs |-> << >>]
    ELSE LET p == ProcessResult(Head(results), srcs, at, f, ref)
             rest == ProcessAll(Tail(results), srcs, at, f, ref)
         IN  IF p.raised THEN [raised |-> TRUE, trcs |-> << >>]
             ELSE [raised |-> rest.raised, trcs |-> << p.tr >> \o rest.trcs]

\* seis_synthetics(engine, sources, targets, arrival_taper, filterer,
\* reference_taperer, outmode=mode) as a function of its arguments
SeisSynthetics(srcs, tgts, at, f, ref, mode) ==
    LET a == ProcessAll(IterResults(srcs, tgts), srcs, at, f, ref)
    IN  IF a.raised \/ Ragged(a.trcs)
        THEN [raised |-> TRUE, outstack |-> << >>, tmins |-> << >>]
        ELSE LET r == StackStage(a.trcs, Len(srcs), Len(tgts), mode)
             IN  [raised |-> FALSE, outstack |-> r.outstack, tmins |-> r.tmins]

\* response = engine.process(sources=sources, targets=targets, nprocs=nprocs)
SeisProcess ==
    /\ UNCHANGED << earth_vars, tft_vars, cov_vars >>
    /\ seis_pc = "start"
    /\ response' = IterResults(sources, targets)
    /\ store_log' = Append(store_log, Call("process", "", "", 0, 0))
    /\ seis_pc' = "iter"
    /\ UNCHANGED << seis_args, synt_trcs, taperer, outstack, tmins >>

\* one pass of the loop over the results: the trace is tapered, filtered, appended
SeisTrace ==
    /\ UNCHANGED << earth_vars, tft_vars, cov_vars >>
    /\ seis_pc = "iter"
    /\ response /= << >>
    /\ LET p == ProcessResult(Head(response), sources, arrival_taper, filterer,
                              reference_taperer)
       IN  /\ ~p.raised
           /\ store_log' = store_log \o p.calls
           /\ taperer' = p.taperer
           /\ synt_trcs' = Append(synt_trcs, p.tr)
    /\ response' = Tail(response)
    /\ UNCHANGED << seis_args, outstack, tmins, seis_pc >>

\* one pass of the loop in which get_phase_arrival_time raises
SeisTraceRaise ==
    /\ UNCHANGED << earth_vars, tft_vars, cov_vars >>
    /\ seis_pc = "iter"
    /\ response /= << >>
    /\ LET p == ProcessResult(Head(response), sources, arrival_taper, filterer,
                              reference_taperer)
       IN  /\ p.raised
           /\ store_log' = store_log \o p.calls
    /\ seis_pc' = "raised"
    /\ UNCHANGED << seis_args, response, synt_trcs, taperer, outstack, tmins >>

\* the loop is over and num.vstack raises
SeisStackRaise ==
    /\ UNCHANGED << earth_vars, tft_vars, cov_vars >>
    /\ seis_pc = "iter"
    /\ response = << >>
    /\ Ragged(synt_trcs)
    /\ seis_pc' = "vstack_error"
    /\ UNCHANGED << seis_args, response, synt_trcs, store_log, taperer, outstack, tmins >>

\* the loop is over: stack, convert to the output mode, return
SeisStack ==
    /\ UNCHANGED << earth_vars, tft_vars, cov_vars >>
    /\ seis_pc = "iter"
    /\ response = << >>
    /\ ~Ragged(synt_trcs)
    /\ LET r == StackStage(synt_trcs, Len(sources), Len(targets), outmode)
       IN  /\ outstack' = r.outstack
           /\ tmins' = r.tmins
    /\ seis_pc' = "done"
    /\ UNCHANGED << seis_args, response, synt_trcs, store_log, taperer >>

\* ------------------------------------------------------------------------
\* taper_filter_traces
\* ------------------------------------------------------------------------
\* the times at which a recording may start
ObservedStarts == { 0, 1 }

\* the trace recorded at a target
Observed(target, start) ==
    [tmin  |-> start,
     ydata |-> [j \in 1..NSamples |-> 3 * j + target.north_shift]]

\* trace.CosTaper(tmins[i], tmins[i] + b, tmins[i] + a + c, tmins[i] + a + d)
ObservedWindow(tmin, at) ==
    CosTaper(tmin, tmin + at.b, tmin + at.a + at.c, tmin + at.a + at.d)

\* the body of the loop of taper_filter_traces for one trace: the taperer built
\* and the trace appended
CutTrace(tr, at, f, tmin) ==
    LET tp == IF at /= << >> THEN << ObservedWindow(tmin, at[1]) >> ELSE << >>
        tr1 == IF at /= << >> THEN TaperChop(tr, tp[1]) ELSE tr
        tr2 == IF f /= << >> THEN Bandpass(tr1, f[1]) ELSE tr1
    IN  [taperer |-> tp, tr |-> tr2]

\* taper_filter_traces(data_traces, arrival_taper, filterer, tmins) is called
\* with the tmins seis_synthetics returned and one recorded trace per target
TftCall ==
    /\ UNCHANGED << earth_vars, cov_vars >>
    /\ seis_pc = "done"
    /\ tft_pc = "idle"
    /\ \E start \in ObservedStarts :
          data_traces' = [r \in 1..Len(targets) |-> Observed(targets[r], start)]
    /\ cut_traces' = << >>
    /\ tft_pc' = "loop"
    /\ UNCHANGED << seis_args, response, synt_trcs, store_log, taperer, outstack, tmins,
                    seis_pc, tft_taperer, tft_out >>

\* for i, tr in enumerate(data_traces): one pass
TftTrace ==
    /\ UNCHANGED << earth_vars, cov_vars >>
    /\ tft_pc = "loop"
    /\ Len(cut_traces) < Len(data_traces)
    /\ LET n == Len(cut_traces) + 1
           p == CutTrace(data_traces[n], arrival_taper, filterer, tmins[n])
       IN  /\ tft_taperer' = p.taperer
           /\ cut_traces' = Append(cut_traces, p.tr)
    /\ UNCHANGED << seis_args, response, synt_trcs, store_log, taperer, outstack, tmins,
                    seis_pc, data_traces, tft_out, tft_pc >>

\* return num.vstack([cut_traces[i].ydata for i in range(len(data_traces))])
TftReturn ==
    /\ UNCHANGED << earth_vars, cov_vars >>
    /\ tft_pc = "loop"
    /\ Len(cut_traces) = Len(data_traces)
    /\ IF Ragged(cut_traces)
       THEN /\ tft_pc' = "vstack_error"
            /\ UNCHANGED tft_out
       ELSE /\ tft_pc' = "done"
            /\ tft_out' = VStack(cut_traces)
    /\ UNCHANGED << seis_args, response, synt_trcs, store_log, taperer, outstack, tmins,
                    seis_pc, data_traces, cut_traces, tft_taperer >>

\* the state of the ensemble variables while seis_synthetics runs
EarthIdle ==
    /\ heap = << >>
    /\ num_vary = 0
    /\ err_depth = 0
    /\ err_velocities = 0
    /\ depth_limit = 0
    /\ items_order = << >>
    /\ earthmods = << >>
    /\ i = 0
    /\ skipped = FALSE
    /\ ens_pc = "idle"
    /\ pc = "idle"
    /\ new_earthmod = 0
    /\ li = 0
    /\ last_l = << >>
    /\ cost = 0
    /\ deltaz = 0
    /\ count = 0
    /\ vm_err_velocities = 0
    /\ factor_d = 0
    /\ n_rejected = 0
    /\ exhausted = FALSE

SeisInit ==
    /\ EarthIdle
    /\ CovIdle
    /\ sources \in SeqsUpTo(SourceSet, MaxSources)
    /\ targets \in SeqsUpTo(TargetSet, MaxTargets)
    /\ arrival_taper \in { << >> } \cup { << t >> : t \in TaperSet }
    /\ filterer \in { << >> } \cup { << f >> : f \in FilterSet }
    /\ reference_taperer \in { << >> } \cup { << t >> : t \in ReferenceTaperSet }
    /\ outmode \in { "array", "traces" }
    /\ response = << >>
    /\ synt_trcs = << >>
    /\ store_log = << >>
    /\ taperer = << >>
    /\ outstack = << >>
    /\ tmins = << >>
    /\ seis_pc = "start"
    /\ TftIdle

SeisNext ==
    \/ SeisProcess
    \/ SeisTrace
    \/ SeisTraceRaise
    \/ SeisStackRaise
    \/ SeisStack
    \/ TftCall
    \/ TftTrace
    \/ TftReturn

SpecSeis == SeisInit /\ [][SeisNext]_vars


\* ------------------------------------------------------------------------
\* Covariance
\* ------------------------------------------------------------------------
\* reads of Covariance.total made on one object
MaxReads == 2

\* the shapes (rows, columns) of the matrices tried
Shapes == { << 1, 1 >>, << 1, 2 >>, << 2, 2 >> }

Matrices(shape, values) == [1..shape[1] -> [1..shape[2] -> values]]

\* the data covariance matrices tried
DataSet == UNION { Matrices(sh, { -1, 0, 2 }) : sh \in Shapes }

\* the prediction covariance matrices tried for a data matrix: constant ones and
\* a diagonal one, of the shape of the data
PredSet(data) ==
    { [r \in DOMAIN data |-> [c \in DOMAIN data[r] |-> v]] : v \in { 0, 1 } }
        \cup { [r \in DOMAIN data |-> [c \in DOMAIN data[r] |-> IF r = c THEN 2 ELSE -1]] }

\* a matrix of ones of the shape of the data
ZerosLike_ones(data) == [r \in DOMAIN data |-> [c \in DOMAIN data[r] |-> 1]]

\* num.zeros_like(self.data)
ZerosLike(data) == [r \in DOMAIN data |-> [c \in DOMAIN data[r] |-> 0]]

\* the element-wise sum of two arrays of one shape
MatAdd(x, y) == [r \in DOMAIN x |-> [c \in DOMAIN x[r] |-> x[r][c] + y[r][c]]]

\* if self.pred_g is None: self.pred_g = num.zeros_like(self.data)
FillUnset(pred, data) == IF pred = << >> THEN << ZerosLike(data) >> ELSE pred

\* one read of the property Covariance.total
CovTotal ==
    /\ UNCHANGED << earth_vars, seis_vars >>
    /\ cov_data /= << >>
    /\ cov_reads < MaxReads
    /\ cov_pred_g' = FillUnset(cov_pred_g, cov_data[1])
    /\ cov_pred_v' = FillUnset(cov_pred_v, cov_data[1])
    /\ cov_total' = << MatAdd(MatAdd(cov_data[1], cov_pred_g'[1]), cov_pred_v'[1]) >>
    /\ cov_reads' = cov_reads + 1
    /\ UNCHANGED cov_data

\* a Covariance object with data set and each prediction matrix set or left None
CovInit ==
    /\ EarthIdle
    /\ SeisIdle
    /\ \E data \in DataSet :
          /\ cov_data = << data >>
          /\ cov_pred_g \in { << >> } \cup { << m >> : m \in PredSet(data) }
          /\ cov_pred_v \in { << >> } \cup { << m >> : m \in PredSet(data) }
    /\ cov_total = << >>
    /\ cov_reads = 0

CovNext == CovTotal

SpecCov == CovInit /\ [][CovNext]_vars

\* ------------------------------------------------------------------------
\* Properties of the earth-model ensemble
\* ------------------------------------------------------------------------
\* the layers vary_model perturbs: those whose reference top is above the limit
Perturbed(k) == ~AtDepthLimit(depth_limit, heap[1].layers[k].ztop)

\* P velocity does not decrease with depth in the whole of a model
Monotone(mod) ==
    /\ \A k \in 1..Len(mod.layers) : MTop(mod, k).vp <= MBot(mod, k).vp
    /\ \A k \in 1..(Len(mod.layers) - 1) : MBot(mod, k).vp <= MTop(mod, k + 1).vp

\* P velocity does not decrease with depth down to depth_limit: inside every
\* perturbed layer, and across every interface below a perturbed layer
MonotoneToLimit(mod) ==
    /\ \A k \in 1..Len(mod.layers) :
          Perturbed(k) => MTop(mod, k).vp <= MBot(mod, k).vp
    /\ \A k \in 1..(Len(mod.layers) - 1) :
          Perturbed(k) => MBot(mod, k).vp <= MTop(mod, k + 1).vp

\* C2: every accepted model of the ensemble has non-decreasing P velocity down
\* to depth_limit, provided the reference model has
C2_AcceptedMonotone ==
    Monotone(heap[1]) =>
        \A n \in 1..Len(earthmods) : MonotoneToLimit(heap[earthmods[n]])

\* the models a pass returned with an acceptable cost: those in the list, and
\* the one just returned and about to be appended
AcceptedModels ==
    { earthmods[n] : n \in 1..Len(earthmods) }
        \cup (IF pc = "ret" /\ Accepted(cost) THEN {new_earthmod} ELSE {})

\* the pass ended at the depth_limit layer
Truncated == pc = "ret" /\ li < Len(Layers(heap[new_earthmod]))

\* C1: ensemble_earthmodel returns exactly num_vary models; the list grows only
\* by appending the model of a pass whose cost is at most 20, and an appended
\* model is never changed or moved afterwards
C1_EnsembleReturns ==
    /\ [](ens_pc = "done" => Len(earthmods) = num_vary)
    /\ [][/\ earthmods' /= earthmods =>
                /\ pc = "ret"
                /\ cost <= CostThreshold
                /\ earthmods' = Append(earthmods, new_earthmod)
          /\ \A n \in 1..Len(earthmods) :
                /\ earthmods'[n] = earthmods[n]
                /\ heap'[earthmods[n]] = heap[earthmods[n]]]_vars

\* C1 witness: a call for two models has returned after a pass was skipped
C1_Witness ==
    /\ ens_pc = "done"
    /\ num_vary = 2
    /\ Len(earthmods) = 2
    /\ skipped
    /\ heap[earthmods[1]] /= heap[earthmods[2]]

NoHardcodedBand(mod) ==
    \A k \in 1..Len(mod.layers) :
        Perturbed(k) =>
            /\ \A b \in DOMAIN mantle_vel_unc : ~(b * km < mod.layers[k].ztop)
            /\ FormatKm(mod.layers[k].zbot) \notin DOMAIN discont_unc

\* C5 as claimed: for any reference model, zero uncertainties give cost 0 and
\* an identical model
C5_ZeroNoOp_AnyModel ==
    (pc = "ret" /\ err_velocities = 0 /\ err_depth = 0) =>
        (cost = 0 /\ heap[new_earthmod] = heap[1])

\* C5 amended: for a reference model with non-decreasing P velocity whose
\* perturbed layers lie in no hardcoded band, zero uncertainties give cost 0
\* and an identical model
C5_ZeroNoOp ==
    (pc = "ret" /\ err_velocities = 0 /\ err_depth = 0
        /\ Monotone(heap[1]) /\ NoHardcodedBand(heap[1])) =>
        (cost = 0 /\ heap[new_earthmod] = heap[1])

\* C5 witness: such a pass over a model with deeper layers has returned
C5_Witness ==
    /\ pc = "ret"
    /\ err_velocities = 0
    /\ err_depth = 0
    /\ Monotone(heap[1])
    /\ NoHardcodedBand(heap[1])
    /\ li >= 1
    /\ \E k \in 1..Len(heap[1].layers) : 200 * km < heap[1].layers[k].ztop

\* C6: the reference model is never changed, the returned model is another
\* object, and every pass starts from a copy of the reference model
C6_InputUntouched ==
    /\ [](pc = "ret" => new_earthmod /= 1)
    /\ [][/\ heap'[1] = heap[1]
          /\ (pc = "idle" /\ pc' = "for") => heap'[new_earthmod'] = heap[1]]_vars

\* C6 witness: a second pass has returned a model that differs from the reference
C6_Witness ==
    /\ pc = "ret"
    /\ Len(earthmods) >= 1
    /\ heap[new_earthmod] /= heap[1]
    /\ heap[earthmods[1]] /= heap[1]

\* ------------------------------------------------------------------------
\* Properties of the seismogram synthesis
\* ------------------------------------------------------------------------
\* the element-wise sum of the appended traces of target r over sources k..ns-1
RECURSIVE SumOverSources(_, _, _, _, _)
SumOverSources(trcs, r, k, ns, nt) ==
    IF k = ns THEN [j \in 1..Len(trcs[r].ydata) |-> 0]
    ELSE LET rest == SumOverSources(trcs, r, k + 1, ns, nt)
         IN  [j \in 1..Len(trcs[r].ydata) |-> trcs[k * nt + r].ydata[j] + rest[j]]

Reverse(q) == [n \in 1..Len(q) |-> q[Len(q) + 1 - n]]

\* C7 as claimed: with more than one source, row r of the returned stack is the
\* sum over all sources of the tapered, filtered traces of target r
C7_StackSumsSources ==
    (seis_pc = "done" /\ Len(sources) > 1) =>
        \A r \in 1..Len(targets) :
            RowData(outstack, r, outmode)
                = SumOverSources(synt_trcs, r, 0, Len(sources), Len(targets))

\* C8 as claimed: with no taper or a reference taper, the stack of the sources
\* in reverse order is the same, and the stack of one source is its traces
C8_StackOrderIndependent ==
    (seis_pc = "done" /\ (arrival_taper = << >> \/ reference_taperer /= << >>)) =>
        /\ LET rev == SeisSynthetics(Reverse(sources), targets, arrival_taper,
                                     filterer, reference_taperer, outmode)
           IN  /\ ~rev.raised
               /\ \A r \in 1..Len(targets) :
                     RowData(outstack, r, outmode) = RowData(rev.outstack, r, outmode)
        /\ Len(sources) = 1 =>
              \A r \in 1..Len(targets) :
                  RowData(outstack, r, outmode) = synt_trcs[r].ydata

\* the taperer of the last pass was built by get_phase_taperer
BuiltFromArrival ==
    taperer /= << >> /\ arrival_taper /= << >> /\ reference_taperer = << >>

NonDecreasing(tp) == tp.a <= tp.b /\ tp.b <= tp.c /\ tp.c <= tp.d

NonNegative(at) == at.a >= 0 /\ at.b >= 0 /\ at.c >= 0 /\ at.d >= 0

\* C9 as claimed: for offsets a <= b <= c <= d the four window times are in
\* non-decreasing order
C9_WindowOrdered_Increasing ==
    (BuiltFromArrival /\ NonNegative(arrival_taper[1]) /\ NonDecreasing(arrival_taper[1]))
        => NonDecreasing(taperer[1])

\* C9 amended: for non-negative offsets with b <= a and c <= d the four window
\* times are in non-decreasing order
C9_WindowOrdered ==
    (BuiltFromArrival /\ NonNegative(arrival_taper[1])
        /\ arrival_taper[1].b <= arrival_taper[1].a
        /\ arrival_taper[1].c <= arrival_taper[1].d)
        => NonDecreasing(taperer[1])

\* C9 witness: a window built from offsets with b < a and c < d
C9_Witness ==
    /\ BuiltFromArrival
    /\ arrival_taper[1].b < arrival_taper[1].a
    /\ arrival_taper[1].c < arrival_taper[1].d
    /\ taperer[1].a < taperer[1].b
    /\ taperer[1].c < taperer[1].d

Supported(target) == target.codes[4] \in { "T", "Z" }

\* the phase the convention gives a supported channel
ExpectedPhase(target) == IF target.codes[4] = "T" THEN "any_S" ELSE "any_P"

\* the target of the last trace appended
LastTarget == targets[((Len(synt_trcs) - 1) % Len(targets)) + 1]

CountCalls(name) == Cardinality({ n \in 1..Len(store_log) : store_log[n].call = name })

\* every travel-time query is for a supported target, with the phase of its
\* channel, at the depth of and the distance to the first source; the window
\* of a pass is anchored at that travel time plus the time of the first source
ArrivalConvention ==
    /\ \A n \in 1..Len(store_log) :
          store_log[n].call = "t" =>
              \E t \in { targets[m] : m \in 1..Len(targets) } :
                  /\ t.store_id = store_log[n].store_id
                  /\ Supported(t)
                  /\ store_log[n].wave = ExpectedPhase(t)
                  /\ store_log[n].depth = sources[1].depth
                  /\ store_log[n].dist = DistanceTo(t, sources[1])
    /\ BuiltFromArrival =>
          /\ Supported(LastTarget)
          /\ taperer[1].a + arrival_taper[1].a
                = StoreT(ExpectedPhase(LastTarget), sources[1].depth,
                         DistanceTo(LastTarget, sources[1])) + sources[1].time

\* an unsupported channel raises at once: the store was opened, no travel time
\* was queried for it, and nothing was tried again
RaisesAtOnce ==
    seis_pc = "raised" =>
        /\ response /= << >>
        /\ ~Supported(Head(response).target)
        /\ store_log[Len(store_log)]
              = Call("get_store", Head(response).target.store_id, "", 0, 0)
        /\ CountCalls("get_store") = Len(synt_trcs) + 1
        /\ CountCalls("t") = Len(synt_trcs)

HasUnsupported == \E m \in 1..Len(targets) : ~Supported(targets[m])

\* C10 as claimed: the channel convention, the raise, and no result from
\* seis_synthetics for an unsupported target whenever a taper is requested
C10_ChannelError_AnyTaperer ==
    /\ ArrivalConvention
    /\ RaisesAtOnce
    /\ (HasUnsupported /\ arrival_taper /= << >>) => seis_pc /= "done"

\* C10 amended: the same, with no result from seis_synthetics whenever a taper
\* is requested and no reference taperer is supplied
C10_ChannelError ==
    /\ ArrivalConvention
    /\ RaisesAtOnce
    /\ (HasUnsupported /\ arrival_taper /= << >> /\ reference_taperer = << >>)
          => seis_pc /= "done"

\* C10 witness: the second of two targets has an unsupported channel and the
\* call has raised after a travel-time query for the first
C10_Witness ==
    /\ seis_pc = "raised"
    /\ Len(synt_trcs) >= 1
    /\ CountCalls("t") >= 1
    /\ ~Supported(Head(response).target)

\* ------------------------------------------------------------------------
\* Properties of the redraw loops of vary_model
\* ------------------------------------------------------------------------
\* the velocity loop of the current layer has been left by `count > 1000'
ExhaustedHere == pc \in {"shift", "depth"} /\ count > MaxVelCount

\* C13: the velocity redraw loop of a layer performs at most 1000 draws (inside
\* the loop every draw made so far was rejected, so count is the number of draws
\* made), and a layer whose loop was exhausted keeps the P and S velocities it
\* had before the pass
C13_VelocityLoopCap ==
    /\ (pc = "vel" /\ last_l /= << >>) => count <= 1000
    /\ ExhaustedHere =>
          /\ MTop(heap[new_earthmod], li) = MTop(heap[1], li)
          /\ MBot(heap[new_earthmod], li) = MBot(heap[1], li)

\* the pass has returned with the truncation penalty as its cost
PenaltyAssigned == pc = "ret" /\ Truncated /\ cost = TruncationCost

\* C14: without a truncation penalty the returned cost is the number of draws
\* rejected in the pass (so it is 0 exactly when no draw was rejected)
C14_CostCountsRejections ==
    (pc = "ret" /\ ~PenaltyAssigned) => (cost >= 0 /\ cost = n_rejected)

\* the uncertainty of the band a top depth lies in
BandOfTop(ztop, err) ==
    IF ztop <= 200 * km THEN err ELSE IF ztop <= 400 * km THEN 20 ELSE 10

\* C15: the velocity uncertainty used for a layer's draws is that of the band of
\* its top depth, whatever the order in which the band table is iterated
C15_BandOfTopDepth ==
    (pc \in {"shift", "depth"} /\ li >= 1) =>
        vm_err_velocities = BandOfTop(heap[1].layers[li].ztop, err_velocities)

\* a call in which every pass ends at a depth_limit layer whose top velocity is
\* below that of the layer above it, nothing being perturbed on the way
AlwaysPenalised ==
    /\ num_vary >= 1
    /\ err_depth = 0
    /\ err_velocities = 0
    /\ NoHardcodedBand(heap[1])
    /\ \E k \in 2..Len(heap[1].layers) :
          /\ ~Perturbed(k)
          /\ \A j \in 1..(k - 1) : Perturbed(j) /\ heap[1].layers[j].zbot >= heap[1].layers[j].ztop
          /\ \A j \in 2..(k - 1) : MTop(heap[1], j).vp >= MBot(heap[1], j - 1).vp
          /\ MTop(heap[1], k).vp < MTop(heap[1], k - 1).vp

\* C16: ensemble_earthmodel bounds the number of attempts by nothing: in a call
\* whose every pass gets the truncation penalty every pass has cost > 20 and the
\* loop never returns; it returns only after num_vary passes with cost <= 20
C16_NoAttemptBound ==
    /\ AlwaysPenalised => (ens_pc /= "done" /\ (pc = "ret" => cost > CostThreshold))
    /\ ens_pc = "done" => (i = num_vary /\ Len(earthmods) = num_vary)

\* C16 witness: in such a call a pass has been skipped and a later pass has come
\* back with the penalty again
C16_Witness ==
    /\ AlwaysPenalised
    /\ skipped
    /\ ens_pc = "vary"
    /\ pc = "ret"
    /\ cost = TruncationCost

\* the references whose every layer has bottom_depth >= top_depth
WellOrdered(mod) == \A k \in 1..Len(mod.layers) : mod.layers[k].zbot >= mod.layers[k].ztop

\* C17: the depth redraw loop of a layer can always end: a rejected draw leaves
\* the layer as it was, so the loop ends under fair draws exactly when some
\* draw of its distribution is accepted
C17_DepthLoopEnds ==
    (pc = "depth" /\ WellOrdered(heap[1]) /\ err_depth >= 0) =>
        LET layer == heap[new_earthmod].layers[li]
        IN  \E d \in DepthDraws(DepthSigma(layer.zbot, factor_d)) :
                ~DepthRejected(layer.zbot, layer.ztop, d)

\* C18: a pass in which a velocity loop was exhausted returns a cost above 20,
\* and no model of the ensemble comes from such a pass
C18_ExhaustedRejected ==
    /\ (pc = "ret" /\ exhausted) => cost > CostThreshold
    /\ (pc = "ret" /\ exhausted) => ~Accepted(cost)
    /\ ExhaustedHere => cost + count > CostThreshold

\* C18 witness: a pass with an exhausted velocity loop has gone on to the
\* depth_limit layer and returned
C18_Witness ==
    /\ pc = "ret"
    /\ exhausted
    /\ Truncated
    /\ n_rejected > MaxVelCount


\* ------------------------------------------------------------------------
\* Properties of the conditioning of recorded traces
\* ------------------------------------------------------------------------
\* the arrival time get_phase_taperer computes for the trace of target n
ArrivalOf(n) == GetPhaseArrivalTime(sources[1], targets[n]).value

\* taper_filter_traces has just built the taperer of trace n from a start time
\* that is the start of the synthetic window of the same target
AnchoredAtWindowStart(n) ==
    /\ tft_pc = "loop"
    /\ n = Len(cut_traces)
    /\ n >= 1
    /\ arrival_taper /= << >>
    /\ tft_taperer /= << >>
    /\ Supported(targets[n])
    /\ tmins[n] = ArrivalOf(n) - arrival_taper[1].a

\* C12: given the start of the synthetic window, arrival - a, as tmin, the four
\* taper times of taper_filter_traces are those of get_phase_taperer for the
\* same arrival and the same ArrivalTaper
C12_ObservedMirrorsSynthetic ==
    \A n \in 1..Len(targets) :
        AnchoredAtWindowStart(n) =>
            tft_taperer[1] = WindowTimes(ArrivalOf(n), arrival_taper[1])


\* ------------------------------------------------------------------------
\* Properties of Covariance
\* ------------------------------------------------------------------------
\* a component as the claim reads it: a zero matrix of data's shape when unset
OrZero(pred, data) ==
    IF pred = << >> THEN [r \in DOMAIN data |-> [c \in DOMAIN data[r] |-> 0]] ELSE pred[1]

\* the sum of the three components, element by element
SumOfComponents(data, g, v) ==
    [r \in DOMAIN data |->
        [c \in DOMAIN data[r] |-> data[r][c] + OrZero(g, data)[r][c] + OrZero(v, data)[r][c]]]

\* C11: every read of total returns data + pred_g + pred_v with an unset
\* component counted as zeros; with only data set it returns data; a later read
\* returns what the first returned; and data is never changed
C11_TotalIsSum ==
    /\ [][cov_total' = << SumOfComponents(cov_data[1], cov_pred_g, cov_pred_v) >>]_vars
    /\ [][(cov_pred_g = << >> /\ cov_pred_v = << >>) => cov_total' = cov_data]_vars
    /\ [][cov_reads >= 1 => cov_total' = cov_total]_vars
    /\ [][cov_data' = cov_data]_vars

\* C11 witness: total has been read twice on an object whose pred_g was unset
\* and whose pred_v is set and not zero
C11_Witness ==
    /\ cov_reads >= 2
    /\ cov_pred_g = << ZerosLike(cov_data[1]) >>
    /\ cov_pred_v /= << ZerosLike(cov_data[1]) >>
    /\ cov_total /= cov_data
    /\ cov_total = << MatAdd(cov_data[1], cov_pred_v[1]) >>


=============================================================================
